---- MODULE Spec2Model ----
(***************************************************************************)
(* Model of scanpy's annotated data container (classes/ann_data.py):       *)
(* BoundRecArr (a record array bound to a container) and AnnData (a        *)
(* matrix X with a sample table smp, a variable table var and a dict add). *)
(*                                                                         *)
(* Python objects live in heaps, because the code shares them:             *)
(*   objs  program variables holding AnnData instances                     *)
(*   tabs  BoundRecArr objects (a container refers to its tables by id)    *)
(*   bufs  numpy data buffers (X is a view: basic slicing and .T share the *)
(*         buffer of the array they were taken from)                       *)
(* A container's dict add is an object too: addid is its identity, and a   *)
(* write through one container shows in every container holding that dict. *)
(* last records the latest call, arg the arguments it was given.           *)
(* held is a table the program keeps a reference to (t = m.smp), 0 if it   *)
(* keeps none.                                                             *)
(* Positions are 0-based as in Python; TLA+ sequences are 1-based, so the  *)
(* element at position p of a sequence s is s[p + 1].                      *)
(* Table cells are written as strings together with the column's dtype    *)
(* kind ("i" for int64, "U" for unicode): the int 1 is "1" in an "i"       *)
(* column, the label 'A' is "A" in a "U" column.                           *)
(***************************************************************************)
EXTENDS Integers, Sequences, FiniteSets, TLC

VARIABLES objs, tabs, bufs, last, steps, arg, held

vars == <<objs, tabs, bufs, last, steps, arg, held>>

(* Bounds of the model. *)
MaxSteps == 2
NSlots == 2
MaxColLen == 3

Slots == 1..NSlots
TIds == 1..(2 * NSlots + 2)
BIds == 1..(NSlots + 1)

SMP_NAMES == "smp_names"
VAR_NAMES == "var_names"

Axes == {"smp", "var"}

(***************************************************************************)
(* Small helpers on sequences.                                             *)
(***************************************************************************)
Range(s) == {s[i] : i \in DOMAIN s}

Min(a, b) == IF a < b THEN a ELSE b

Max(a, b) == IF a < b THEN b ELSE a

(* s[P[1]], s[P[2]], ... for a sequence P of 0-based positions *)
Take(s, P) == [k \in 1..Len(P) |-> s[P[k] + 1]]

(* the 0-based positions lo, lo+1, ..., hi-1 *)
Interval(lo, hi) == [k \in 1..Max(hi - lo, 0) |-> lo + k - 1]

(* np.arange(n) as an int64 column *)
Arange(n) == [k \in 1..n |-> ToString(k - 1)]

IsIntLiteral(s) == s \in {ToString(k) : k \in 0..9}

(***************************************************************************)
(* BoundRecArr.  A table is [live, name_col, parent, fields]; fields is    *)
(* the dtype (names in order, kinds) together with the column data;        *)
(* parent is the slot of the owning container (0: an object that no        *)
(* program variable holds any more).                                       *)
(***************************************************************************)
NoTab == [live |-> FALSE, name_col |-> "", parent |-> 0, fields |-> <<>>]

Field(n, k, v) == [name |-> n, kind |-> k, vals |-> v]

FieldNames(fields) == [i \in DOMAIN fields |-> fields[i].name]

HasField(fields, n) == \E i \in DOMAIN fields : fields[i].name = n

FieldIdx(fields, n) == CHOOSE i \in DOMAIN fields : fields[i].name = n

(* len(recarray): the length of its columns *)
TLen(fields) == Len(fields[1].vals)

(* Sources of a table: None, a recarray, a Mapping, anything else *)
SrcNone == [t |-> "none", fields |-> <<>>]

SrcRec(fields) == [t |-> "rec", fields |-> fields]

SrcMap(fields) == [t |-> "map", fields |-> fields]

(* arr[name] = col for a column of the array's length n: numpy broadcasts a *)
(* column of length 1 and refuses any other length                          *)
FitsColumn(col, n) == Len(col) = n \/ Len(col) = 1

Broadcast(col, n) == IF Len(col) = n THEN col ELSE [k \in 1..n |-> col[1]]

(* the value to store in a column of kind k from a value of kind vk *)
CastOk(vk, k, vals) == k = "U" \/ vk = "i" \/ \A i \in DOMAIN vals : IsIntLiteral(vals[i])

(* BoundRecArr.__new__(cls, source, name_col, parent, n_row):              *)
(* n_row = -1 stands for None.  Returns [err, tab].                        *)
BoundRecArrNew(source, name_col, parent, n_row) ==
  LET fail(e) == [err |-> e, tab |-> NoTab]
      ok(fs) == [err |-> "ok",
                 tab |-> [live |-> TRUE, name_col |-> name_col,
                          parent |-> parent, fields |-> fs]]
  IN  CASE source.t = "none" ->
             IF n_row < 0 THEN fail("TypeError")
             ELSE ok(<<Field(name_col, "i", Arange(n_row))>>)
        [] source.t = "rec" -> ok(source.fields)
        [] source.t = "map" ->
             LET given == source.fields
                 needs == ~HasField(given, name_col)
             IN  IF needs /\ given = <<>> /\ n_row < 0 THEN fail("TypeError")
                 ELSE
                   LET n0 == IF given = <<>> THEN n_row ELSE Len(given[1].vals)
                       cols == IF needs
                               THEN Append(given, Field(name_col, "i", Arange(n0)))
                               ELSE given
                       n == Len(cols[1].vals)
                   IN  IF \A i \in DOMAIN cols : FitsColumn(cols[i].vals, n)
                       THEN ok([i \in DOMAIN cols |->
                                  Field(cols[i].name, cols[i].kind,
                                        Broadcast(cols[i].vals, n))])
                       ELSE fail("ValueError")
        [] OTHER -> fail("ValueError")

(* BoundRecArr.flipped(self), on the table heap T: returns the heap after  *)
(* the call and the new table.  The copy gets its own dtype, so renaming   *)
(* its identifier field leaves self's dtype alone.                         *)
RenameField(fields, old, new) ==
  [i \in DOMAIN fields |->
     [fields[i] EXCEPT !.name = IF @ = old THEN new ELSE @]]

flippedInPlace(T, tid) ==
  LET self == T[tid]
      new_name_col == IF self.name_col = VAR_NAMES THEN SMP_NAMES ELSE VAR_NAMES
      renamed == RenameField(self.fields, self.name_col, new_name_col)
  IN  [tabs |-> [T EXCEPT ![tid].fields = renamed],
       res |-> [live |-> TRUE, name_col |-> new_name_col,
                parent |-> self.parent, fields |-> renamed]]

flipped(T, tid) ==
  LET self == T[tid]
      old_name_col == self.name_col
      new_name_col == IF old_name_col = VAR_NAMES THEN SMP_NAMES ELSE VAR_NAMES
      made == BoundRecArrNew(SrcRec(self.fields), new_name_col, self.parent,
                             TLen(self.fields)).tab
  IN  [tabs |-> T,
       res |-> [made EXCEPT
                  !.fields = RenameField(@, old_name_col, new_name_col)]]

(* BoundRecArr.columns *)
columns(t) ==
  SelectSeq(FieldNames(t.fields), LAMBDA c : c # t.name_col)

(***************************************************************************)
(* numpy arrays.  A view is [buf, rmap, cmap, tr]: logical entry (i, j) is *)
(* buffer entry (rmap[i], cmap[j]), or (rmap[j], cmap[i]) when transposed. *)
(***************************************************************************)
NoBuf == [live |-> FALSE, data |-> <<>>]

NoView == [buf |-> 0, rmap |-> <<>>, cmap |-> <<>>, tr |-> FALSE]

NRows(v) == IF v.tr THEN Len(v.cmap) ELSE Len(v.rmap)

NCols(v) == IF v.tr THEN Len(v.rmap) ELSE Len(v.cmap)

(* buffer coordinates of the logical entry at 0-based (i, j) *)
Cell(v, i, j) ==
  IF v.tr THEN <<v.rmap[j + 1], v.cmap[i + 1]>>
  ELSE <<v.rmap[i + 1], v.cmap[j + 1]>>

Entry(B, v, i, j) == B[v.buf].data[Cell(v, i, j)[1]][Cell(v, i, j)[2]]

(* the matrix a view shows, as rows of values *)
Matrix(B, v) ==
  [i \in 1..NRows(v) |-> [j \in 1..NCols(v) |-> Entry(B, v, i - 1, j - 1)]]

(* X.T: a view of the same buffer *)
TransposeViewSticky(v) == [v EXCEPT !.tr = TRUE]

TransposeView(v) == [v EXCEPT !.tr = ~v.tr]

(* X[P, Q] for two slices, P and Q the 0-based positions they cover: a view *)
SliceView(v, P, Q) ==
  IF v.tr
  THEN [v EXCEPT !.cmap = Take(v.cmap, P), !.rmap = Take(v.rmap, Q)]
  ELSE [v EXCEPT !.rmap = Take(v.rmap, P), !.cmap = Take(v.cmap, Q)]

IdentityView(b, nr, nc) ==
  [buf |-> b, rmap |-> [i \in 1..nr |-> i], cmap |-> [j \in 1..nc |-> j],
   tr |-> FALSE]

(***************************************************************************)
(* Index expressions.  A bound or list element is [t, i, s] with t one of  *)
(* "none", "int", "str", "bool" (a bool carries i = 0 or 1).  A selector   *)
(* is [kind, a, b, elems]: kind "int" / "str" (the scalar is a), "slice"   *)
(* (a : b, no step), "list", "array" (np.ndarray), "other" (any other      *)
(* type, such as a float).                                                 *)
(***************************************************************************)
BNone == [t |-> "none", i |-> 0, s |-> ""]

BInt(i) == [t |-> "int", i |-> i, s |-> ""]

BStr(s) == [t |-> "str", i |-> 0, s |-> s]

BBool(b) == [t |-> "bool", i |-> IF b THEN 1 ELSE 0, s |-> ""]

SInt(i) == [kind |-> "int", a |-> BInt(i), b |-> BNone, elems |-> <<>>]

SStr(s) == [kind |-> "str", a |-> BStr(s), b |-> BNone, elems |-> <<>>]

SSlice(a, b) == [kind |-> "slice", a |-> a, b |-> b, elems |-> <<>>]

SList(es) == [kind |-> "list", a |-> BNone, b |-> BNone, elems |-> es]

SArray(es) == [kind |-> "array", a |-> BNone, b |-> BNone, elems |-> es]

SAll == SSlice(BNone, BNone)

(* scipy IndexMixin._unpack_index (called at ann_data.py line 278): a bare  *)
(* index is a row index with slice(None) for the columns; a boolean        *)
(* np.ndarray becomes the array of its nonzero positions (_check_boolean). *)
NonZero(es) ==
  LET F[k \in 0..Len(es)] ==
        IF k = 0 THEN <<>>
        ELSE IF es[k].i = 1 THEN Append(F[k - 1], BInt(k - 1)) ELSE F[k - 1]
  IN  F[Len(es)]

IsBoolArray(sel) ==
  sel.kind = "array" /\ sel.elems # <<>> /\ \A k \in DOMAIN sel.elems : sel.elems[k].t = "bool"

check_boolean(sel) == IF IsBoolArray(sel) THEN SArray(NonZero(sel.elems)) ELSE sel

unpack_index(index) ==
  IF index.tuple
  THEN [row |-> check_boolean(index.row), col |-> check_boolean(index.col)]
  ELSE [row |-> check_boolean(index.row), col |-> SAll]

(* AnnData._normalize_index.name_idx(i) against the identifier column      *)
(* names = [kind, vals]: a str is looked up with np.where(names == i)[0][0] *)
(* (the first match; no match indexes an empty array: IndexError; an int64 *)
(* column never equals a str), anything else is returned as it is.         *)
Matches(names, s) ==
  IF names.kind = "U" THEN {k \in DOMAIN names.vals : names.vals[k] = s} ELSE {}

FirstOf(S) == CHOOSE k \in S : \A m \in S : k <= m

LastOf(S) == CHOOSE k \in S : \A m \in S : k >= m

name_idx_last(i, names) ==
  IF i.t = "str"
  THEN IF Matches(names, i.s) = {} THEN [err |-> "IndexError", v |-> BNone]
       ELSE [err |-> "ok", v |-> BInt(LastOf(Matches(names, i.s)) - 1)]
  ELSE [err |-> "ok", v |-> i]

name_idx_lenient(i, names) ==
  IF i.t = "str"
  THEN IF Matches(names, i.s) = {} THEN [err |-> "ok", v |-> BNone]
       ELSE [err |-> "ok", v |-> BInt(FirstOf(Matches(names, i.s)) - 1)]
  ELSE [err |-> "ok", v |-> i]

name_idx(i, names) ==
  IF i.t = "str"
  THEN IF Matches(names, i.s) = {} THEN [err |-> "IndexError", v |-> BNone]
       ELSE [err |-> "ok", v |-> BInt(FirstOf(Matches(names, i.s)) - 1)]
  ELSE [err |-> "ok", v |-> i]

(* A normalized index is slice(start, stop, step) or an int64 array.       *)
NSlice(a, b) == [err |-> "ok", kind |-> "slice", start |-> a, stop |-> b, arr |-> <<>>]

NArray(ps) == [err |-> "ok", kind |-> "array", start |-> BNone, stop |-> BNone, arr |-> ps]

NFail(e) == [err |-> e, kind |-> "slice", start |-> BNone, stop |-> BNone, arr |-> <<>>]

(* stop + 1 for a str stop bound that was found *)
StopOfExclusive(given, found) == found

StopOf(given, found) ==
  IF given.t = "str" /\ found.t # "none" THEN BInt(found.i + 1) ELSE found

(* np.fromiter(map(name_idx, index), 'int64'): bools become 0 and 1 *)
FromIter(es, names) ==
  IF \E k \in DOMAIN es : name_idx(es[k], names).err # "ok" THEN NFail("IndexError")
  ELSE IF \E k \in DOMAIN es : name_idx(es[k], names).v.t = "none" THEN NFail("TypeError")
  ELSE NArray([k \in DOMAIN es |-> name_idx(es[k], names).v.i])

normalize_index(index, names) ==
  CASE index.kind = "slice" ->
         LET start == name_idx(index.a, names)
             stop == name_idx(index.b, names)
         IN  IF start.err # "ok" THEN NFail(start.err)
             ELSE IF stop.err # "ok" THEN NFail(stop.err)
             ELSE NSlice(start.v, StopOf(index.b, stop.v))
    [] index.kind \in {"int", "str"} ->
         LET start == name_idx(index.a, names)
         IN  IF start.err # "ok" THEN NFail(start.err)
             ELSE IF start.v.t = "none" THEN NFail("TypeError")
             ELSE NSlice(start.v, BInt(start.v.i + 1))
    [] index.kind \in {"list", "array"} -> FromIter(index.elems, names)
    [] OTHER -> NFail("IndexError")

(***************************************************************************)
(* numpy indexing with a normalized index along an axis of length n.       *)
(***************************************************************************)
ClampBound(b, n, dflt) ==
  IF b.t = "none" THEN dflt
  ELSE IF b.i < 0 THEN Max(b.i + n, 0) ELSE Min(b.i, n)

(* positions a slice covers (step None) *)
SlicePositions(nidx, n) ==
  Interval(ClampBound(nidx.start, n, 0), ClampBound(nidx.stop, n, n))

(* an index array: every entry must lie in -n .. n-1, negatives wrap *)
ArrayInRange(arr, n) == \A k \in DOMAIN arr : -n <= arr[k] /\ arr[k] < n

ArrayPositions(arr, n) == [k \in DOMAIN arr |-> IF arr[k] < 0 THEN arr[k] + n ELSE arr[k]]

AxisOk(nidx, n) == nidx.kind = "slice" \/ ArrayInRange(nidx.arr, n)

AxisPositions(nidx, n) ==
  IF nidx.kind = "slice" THEN SlicePositions(nidx, n) ELSE ArrayPositions(nidx.arr, n)

(* An array value handed around: cls is the Python class, shape its shape; *)
(* own = TRUE for freshly allocated data (rows in data), own = FALSE for a *)
(* view of an existing buffer.                                             *)
ArrView(cls, v) ==
  [cls |-> cls, shape |-> <<NRows(v), NCols(v)>>, own |-> FALSE, view |-> v, data |-> <<>>]

ArrOwn(cls, shape, data) ==
  [cls |-> cls, shape |-> shape, own |-> TRUE, view |-> NoView, data |-> data]

NoArr == ArrOwn("none", <<>>, <<>>)

(* the broadcast length of two index arrays, -1 when they do not broadcast *)
BroadcastLen(k1, k2) ==
  IF k1 = k2 THEN k1 ELSE IF k1 = 1 THEN k2 ELSE IF k2 = 1 THEN k1 ELSE -1

BroadcastAt(P, k) == IF Len(P) = 1 THEN P[1] ELSE P[k]

(* X[r, c] on an ndarray (or MaskedArray) shown by view v.  Two slices     *)
(* give a view; a slice and an index array give a copy; two index arrays   *)
(* are broadcast against each other and pick the entries (r[k], c[k]): a   *)
(* 1-D result.                                                             *)
ArrayGetItem(B, cls, v, r, c) ==
  LET P == AxisPositions(r, NRows(v))
      Q == AxisPositions(c, NCols(v))
  IN  IF ~AxisOk(r, NRows(v)) \/ ~AxisOk(c, NCols(v))
      THEN [err |-> "IndexError", arr |-> NoArr]
      ELSE IF r.kind = "slice" /\ c.kind = "slice"
      THEN [err |-> "ok", arr |-> ArrView(cls, SliceView(v, P, Q))]
      ELSE IF r.kind = "array" /\ c.kind = "array"
      THEN LET k == BroadcastLen(Len(P), Len(Q))
           IN  IF k < 0 THEN [err |-> "IndexError", arr |-> NoArr]
               ELSE [err |-> "ok",
                     arr |-> ArrOwn(cls, <<k>>,
                                    [i \in 1..k |->
                                       <<Entry(B, v, BroadcastAt(P, i), BroadcastAt(Q, i))>>])]
      ELSE [err |-> "ok",
            arr |-> ArrOwn(cls, <<Len(P), Len(Q)>>,
                           [i \in 1..Len(P) |-> [j \in 1..Len(Q) |->
                              Entry(B, v, P[i], Q[j])]])]

(* the buffer cells X[r, c] = val writes; {} with err when numpy refuses *)
ArraySetCells(v, r, c) ==
  LET P == AxisPositions(r, NRows(v))
      Q == AxisPositions(c, NCols(v))
  IN  IF ~AxisOk(r, NRows(v)) \/ ~AxisOk(c, NCols(v))
      THEN [err |-> "IndexError", cells |-> {}]
      ELSE IF r.kind = "array" /\ c.kind = "array"
      THEN LET k == BroadcastLen(Len(P), Len(Q))
           IN  IF k < 0 THEN [err |-> "IndexError", cells |-> {}]
               ELSE [err |-> "ok",
                     cells |-> {Cell(v, BroadcastAt(P, i), BroadcastAt(Q, i)) : i \in 1..k}]
      ELSE [err |-> "ok",
            cells |-> {Cell(v, P[i], Q[j]) : i \in 1..Len(P), j \in 1..Len(Q)}]

(* recarray[idx]: the rows at the indexed positions (a view without the    *)
(* BoundRecArr attributes; it is only ever used as a source)               *)
TableGetItem(fields, nidx) ==
  LET n == TLen(fields)
  IN  IF ~AxisOk(nidx, n) THEN [err |-> "IndexError", fields |-> <<>>]
      ELSE [err |-> "ok",
            fields |-> [i \in DOMAIN fields |->
                          [fields[i] EXCEPT !.vals = Take(@, AxisPositions(nidx, n))]]]

(***************************************************************************)
(* AnnData.  A container is [live, cls, X, smp, var, add, addid,           *)
(* storage_type]: X a view, cls the Python class of X, smp and var table   *)
(* ids, addid the identity of the dict self.add and add that               *)
(* dict of unstructured annotation (AddKeys -> value, Absent for no key).  *)
(***************************************************************************)
AddKeys == {"k1", "k2"}

Absent == -1

EmptyAdd == [k \in AddKeys |-> Absent]

(* the entries of add whose values are lists: the identifier lists that   *)
(* from_ddata leaves in add.  [has, vals] per key.                         *)
ListKeys == {SMP_NAMES, VAR_NAMES}

NoList == [has |-> FALSE, vals |-> <<>>]

AList(vals) == [has |-> TRUE, vals |-> vals]

NoLists == [k \in ListKeys |-> NoList]

NoObj == [live |-> FALSE, cls |-> "none", X |-> NoView, smp |-> 0, var |-> 0,
          add |-> EmptyAdd, addlists |-> NoLists, addid |-> 0, storage_type |-> "none"]

Heap(o, T, B) == [objs |-> o, tabs |-> T, bufs |-> B]

Fail(H, e) == [err |-> e, objs |-> H.objs, tabs |-> H.tabs, bufs |-> H.bufs]

Done(o, T, B) == [err |-> "ok", objs |-> o, tabs |-> T, bufs |-> B]

(* objects no reference reaches are collected *)
Collect(R) ==
  [R EXCEPT
     !.tabs = [t \in TIds |->
                 IF \/ \E c \in Slots :
                         R.objs[c].live /\ t \in {R.objs[c].smp, R.objs[c].var}
                    \/ t = held
                 THEN R.tabs[t] ELSE NoTab],
     !.bufs = [b \in BIds |->
                 IF \E c \in Slots : R.objs[c].live /\ R.objs[c].X.buf = b
                 THEN R.bufs[b] ELSE NoBuf]]

NewTid(T) == FirstOf({t \in TIds : ~T[t].live})

NewBid(B) == FirstOf({b \in BIds : ~B[b].live})

(* **add collects the keyword arguments in a dict of its own: an identity  *)
(* no container other than the one being (re)bound at dst holds            *)
NewAid(o, dst) ==
  FirstOf({a \in Slots : \A c \in Slots \ {dst} : ~(o[c].live /\ o[c].addid = a)})

(* class StorageType and the loop of __init__ over it: the first member    *)
(* whose class X is an instance of.  A MaskedArray is an np.ndarray.       *)
StorageTypes == <<"Array", "Masked", "Sparse">>

IsInstance(cls, st) ==
  \/ st = "Array" /\ cls \in {"ndarray", "masked"}
  \/ st = "Masked" /\ cls = "masked"
  \/ st = "Sparse" /\ cls = "sparse"

StorageTypeOf(cls) ==
  IF \E k \in DOMAIN StorageTypes : IsInstance(cls, StorageTypes[k])
  THEN StorageTypes[FirstOf({k \in DOMAIN StorageTypes : IsInstance(cls, StorageTypes[k])})]
  ELSE "none"

(* _check_dimensions(data, smp, var) *)
check_dimensions(shape, smp, var) ==
  IF TLen(smp.fields) # shape[1] THEN "ValueError"
  ELSE IF TLen(var.fields) # shape[2] THEN "ValueError"
  ELSE "ok"

(* if len(X.shape) == 1: X.shape = (X.shape[0], 1) *)
ReshapedNever(shape) == shape

Reshaped(shape) == IF Len(shape) = 1 THEN <<shape[1], 1>> ELSE shape

(* AnnData.__init__(self, X, smp, var, **add) for a matrix X (not a dict), *)
(* the new object being bound to variable dst when it returns.             *)
AnnDataInit(H, dst, X, smp, var, add) ==
  LET s_type == StorageTypeOf(X.cls)
      shape == Reshaped(X.shape)
  IN  IF s_type = "none" THEN Fail(H, "ValueError")
      ELSE IF Len(shape) # 2 THEN Fail(H, "ValueError")
      ELSE
        LET rs == BoundRecArrNew(smp, SMP_NAMES, dst, shape[1])
            rv == BoundRecArrNew(var, VAR_NAMES, dst, shape[2])
        IN  IF rs.err # "ok" THEN Fail(H, rs.err)
            ELSE IF rv.err # "ok" THEN Fail(H, rv.err)
            ELSE IF check_dimensions(shape, rs.tab, rv.tab) # "ok"
            THEN Fail(H, check_dimensions(shape, rs.tab, rv.tab))
            ELSE
              LET T0 == [t \in TIds |->
                           IF H.tabs[t].live /\ H.tabs[t].parent = dst
                           THEN [H.tabs[t] EXCEPT !.parent = 0] ELSE H.tabs[t]]
                  ts == NewTid(T0)
                  T1 == [T0 EXCEPT ![ts] = rs.tab]
                  tv == NewTid(T1)
                  T2 == [T1 EXCEPT ![tv] = rv.tab]
                  b == NewBid(H.bufs)
                  B1 == IF X.own
                        THEN [H.bufs EXCEPT ![b] = [live |-> TRUE, data |-> X.data]]
                        ELSE H.bufs
                  view == IF X.own THEN IdentityView(b, shape[1], shape[2]) ELSE X.view
                  self == [live |-> TRUE, cls |-> X.cls, X |-> view, smp |-> ts,
                           var |-> tv, add |-> add, addlists |-> NoLists,
                           addid |-> NewAid(H.objs, dst),
                           storage_type |-> s_type]
              IN  Collect(Done([H.objs EXCEPT ![dst] = self], T2, B1))

(* **add with list-valued entries: they arrive in self.add with the rest *)
WithLists(R, dst, lists) ==
  IF R.err = "ok" THEN [R EXCEPT !.objs[dst].addlists = lists] ELSE R

(* odict_merge of utils.py on ordered dicts written as field sequences:     *)
(* merged[k] = v keeps the place of a key that is already there            *)
(* and replaces its value, and puts a new key at the end                   *)
MergeInto(merged, d) ==
  LET F[m \in 0..Len(d)] ==
        IF m = 0 THEN merged
        ELSE IF HasField(F[m - 1], d[m].name)
             THEN [i \in DOMAIN F[m - 1] |->
                     IF F[m - 1][i].name = d[m].name THEN d[m] ELSE F[m - 1][i]]
             ELSE Append(F[m - 1], d[m])
  IN  F[Len(d)]

odict_merge(ds) ==
  LET F[m \in 0..Len(ds)] == IF m = 0 THEN <<>> ELSE MergeInto(F[m - 1], ds[m])
  IN  F[Len(ds)]

(* a combined mapping: X, the identifier lists row_names / smp_names /    *)
(* col_names / var_names, the nested mappings row / smp / col / var (each  *)
(* [has, ...]: the key may be missing) and the other keys                  *)
NoNested == [has |-> FALSE, fields |-> <<>>]

Nested(fields) == [has |-> TRUE, fields |-> fields]

NoDdata ==
  [X |-> NoArr, row_names |-> NoList, smp_names |-> NoList, col_names |-> NoList,
   var_names |-> NoList, row |-> NoNested, smp |-> NoNested, col |-> NoNested,
   var |-> NoNested, add |-> EmptyAdd]

(* AnnData.from_ddata(self, ddata): [X, smp, var, add, lists, ddata], add  *)
(* and lists being the returned dict add (its int-valued and its           *)
(* list-valued entries) and ddata the caller's mapping after the call.     *)
(* add.get(k, {}) of a missing key is the empty mapping.                   *)
from_ddata(ddata) ==
  LET smp0 == IF ddata.row_names.has
              THEN <<Field(SMP_NAMES, "U", ddata.row_names.vals)>>
              ELSE IF ddata.smp_names.has
              THEN <<Field(SMP_NAMES, "U", ddata.smp_names.vals)>>
              ELSE <<>>
      var0 == IF ddata.col_names.has
              THEN <<Field(VAR_NAMES, "U", ddata.col_names.vals)>>
              ELSE IF ddata.var_names.has
              THEN <<Field(VAR_NAMES, "U", ddata.var_names.vals)>>
              ELSE <<>>
      (* del add['row_names'] or else del add['smp_names'], never both *)
      lists == [k \in ListKeys |->
                  IF k = SMP_NAMES
                  THEN (IF ddata.row_names.has THEN ddata.smp_names ELSE NoList)
                  ELSE (IF ddata.col_names.has THEN ddata.var_names ELSE NoList)]
  IN  [X |-> ddata.X,
       smp |-> SrcMap(odict_merge(<<smp0, ddata.row.fields, ddata.smp.fields>>)),
       var |-> SrcMap(odict_merge(<<var0, ddata.col.fields, ddata.var.fields>>)),
       add |-> ddata.add,
       lists |-> lists,
       ddata |-> ddata]

(* AnnData.__init__(self, ddata) for a Mapping ddata *)
AnnDataInitDdata(H, dst, ddata) ==
  LET r == from_ddata(ddata)
  IN  WithLists(AnnDataInit(H, dst, r.X, r.smp, r.var, r.add), dst, r.lists)

(* the identifier column of a table as [kind, vals] (AnnData.smp_names /   *)
(* var_names read self.smp[SMP_NAMES] / self.var[VAR_NAMES])               *)
NamesOf(t, name_col) ==
  LET f == t.fields[FieldIdx(t.fields, name_col)]
  IN  [kind |-> f.kind, vals |-> f.vals]

(* AnnData._normalize_indices(packed_index): [err, smp, var] *)
normalize_indices(H, self, packed_index) ==
  LET u == unpack_index(packed_index)
      st == H.tabs[self.smp]
      vt == H.tabs[self.var]
  IN  IF ~HasField(st.fields, SMP_NAMES)
      THEN [err |-> "ValueError", smp |-> NFail("ValueError"), var |-> NFail("ValueError")]
      ELSE
        LET smp == normalize_index(u.row, NamesOf(st, SMP_NAMES))
        IN  IF smp.err # "ok" THEN [err |-> smp.err, smp |-> smp, var |-> smp]
            ELSE IF ~HasField(vt.fields, VAR_NAMES)
            THEN [err |-> "ValueError", smp |-> smp, var |-> NFail("ValueError")]
            ELSE
              LET var == normalize_index(u.col, NamesOf(vt, VAR_NAMES))
              IN  [err |-> var.err, smp |-> smp, var |-> var]

(* AnnData.__getitem__(self, index) for an index that is not a str, the    *)
(* result being bound to variable dst                                      *)
getitemSharingAdd(H, src, dst, index) ==
  LET self == H.objs[src]
      n == normalize_indices(H, self, index)
  IN  IF n.err # "ok" THEN Fail(H, n.err)
      ELSE
        LET X == ArrayGetItem(H.bufs, self.cls, self.X, n.smp, n.var)
            smp_ann == TableGetItem(H.tabs[self.smp].fields, n.smp)
            var_ann == TableGetItem(H.tabs[self.var].fields, n.var)
        IN  IF X.err # "ok" THEN Fail(H, X.err)
            ELSE IF smp_ann.err # "ok" THEN Fail(H, smp_ann.err)
            ELSE IF var_ann.err # "ok" THEN Fail(H, var_ann.err)
            ELSE IF TLen(smp_ann.fields) # X.arr.shape[1] THEN Fail(H, "AssertionError")
            ELSE IF Len(X.arr.shape) < 2 THEN Fail(H, "IndexError")
            ELSE IF TLen(var_ann.fields) # X.arr.shape[2] THEN Fail(H, "AssertionError")
            ELSE
              LET R == WithLists(AnnDataInit(H, dst, X.arr, SrcRec(smp_ann.fields),
                                             SrcRec(var_ann.fields), self.add),
                                 dst, self.addlists)
              IN  IF R.err = "ok" THEN [R EXCEPT !.objs[dst].addid = self.addid] ELSE R

getitem(H, src, dst, index) ==
  LET self == H.objs[src]
      n == normalize_indices(H, self, index)
  IN  IF n.err # "ok" THEN Fail(H, n.err)
      ELSE
        LET X == ArrayGetItem(H.bufs, self.cls, self.X, n.smp, n.var)
            smp_ann == TableGetItem(H.tabs[self.smp].fields, n.smp)
            var_ann == TableGetItem(H.tabs[self.var].fields, n.var)
        IN  IF X.err # "ok" THEN Fail(H, X.err)
            ELSE IF smp_ann.err # "ok" THEN Fail(H, smp_ann.err)
            ELSE IF var_ann.err # "ok" THEN Fail(H, var_ann.err)
            ELSE IF TLen(smp_ann.fields) # X.arr.shape[1] THEN Fail(H, "AssertionError")
            ELSE IF Len(X.arr.shape) < 2 THEN Fail(H, "IndexError")
            ELSE IF TLen(var_ann.fields) # X.arr.shape[2] THEN Fail(H, "AssertionError")
            ELSE WithLists(AnnDataInit(H, dst, X.arr, SrcRec(smp_ann.fields),
                                       SrcRec(var_ann.fields), self.add),
                           dst, self.addlists)

(* AnnData.__getitem__(self, index) for a str index: self.add[index] *)
getitem_str(self, index) ==
  IF self.add[index] = Absent THEN [err |-> "KeyError", val |-> Absent]
  ELSE [err |-> "ok", val |-> self.add[index]]

(* AnnData.__contains__(self, item) *)
contains(self, item) == self.add[item] # Absent

(* AnnData.get(self, key, default) *)
get(self, key, default) == IF self.add[key] = Absent THEN default ELSE self.add[key]

(* AnnData.__len__(self) *)
AnnDataLen(self) == NRows(self.X)

(* AnnData.transpose(self), the result being bound to variable dst *)
transpose(H, src, dst) ==
  LET self == H.objs[src]
      XT == ArrView(self.cls, TransposeView(self.X))
      fv == flipped(H.tabs, self.var)
      fs == flipped(fv.tabs, self.smp)
  IN  WithLists(AnnDataInit(Heap(H.objs, fs.tabs, H.bufs), dst, XT,
                            SrcRec(fv.res.fields), SrcRec(fs.res.fields), self.add),
                dst, self.addlists)

(* AnnData.__setitem__(self, index, val): a str index writes add[index],   *)
(* any other index writes val into X at the normalized selection.          *)
setitem(H, c, index, val) ==
  LET self == H.objs[c]
  IN  IF index.str
      THEN Done([d \in Slots |->
                   IF H.objs[d].live /\ H.objs[d].addid = self.addid
                   THEN [H.objs[d] EXCEPT !.add[index.key] = val]
                   ELSE H.objs[d]],
                H.tabs, H.bufs)
      ELSE
        LET n == normalize_indices(H, self, index)
            w == ArraySetCells(self.X, n.smp, n.var)
        IN  IF n.err # "ok" THEN Fail(H, n.err)
            ELSE IF w.err # "ok" THEN Fail(H, w.err)
            ELSE Done(H.objs, H.tabs,
                      [H.bufs EXCEPT ![self.X.buf].data =
                         [i \in DOMAIN @ |-> [j \in DOMAIN @[i] |->
                            IF <<i, j>> \in w.cells THEN val ELSE @[i][j]]]])

(* AnnData.__delitem__(self, index): after normalizing the index it runs   *)
(* del self.X[smp, var]; neither np.ndarray nor MaskedArray supports item  *)
(* deletion (ValueError), so nothing is ever removed.                      *)
delitem(H, c, index) ==
  LET n == normalize_indices(H, H.objs[c], index)
  IN  IF n.err # "ok" THEN Fail(H, n.err) ELSE Fail(H, "ValueError")

(* AnnData.__setattr__(self, key, value) for key "smp" or "var".  A value  *)
(* that is a BoundRecArr (bound = TRUE, the table tid) is stored as it is; *)
(* anything else (src) is converted, measured against X and, when its      *)
(* identifier column equals np.arange, given the previous identifiers.     *)
(* value[names_col] == np.arange(n) between a unicode and an int64 column  *)
(* is elementwise (all False) or, in a numpy that gives up on it, a plain  *)
(* bool without .all(): elementwise says which.                            *)
AttrTid(self, key) == IF key = "smp" THEN self.smp ELSE self.var

SetAttrTid(o, c, key, tid) ==
  IF key = "smp" THEN [o EXCEPT ![c].smp = tid] ELSE [o EXCEPT ![c].var = tid]

setattr(H, c, key, value, elementwise) ==
  LET self == H.objs[c]
      names_col == IF key = "smp" THEN SMP_NAMES ELSE VAR_NAMES
      cur == H.tabs[AttrTid(self, key)]
      dim == IF key = "smp" THEN NRows(self.X) ELSE NCols(self.X)
  IN  IF value.bound
      THEN Collect(Done(SetAttrTid(H.objs, c, key, value.tid), H.tabs, H.bufs))
      ELSE IF ~HasField(cur.fields, names_col) THEN Fail(H, "ValueError")
      ELSE
        LET names_orig == NamesOf(cur, names_col)
            made == BoundRecArrNew(value.src, names_col, c, -1)
        IN  IF made.err # "ok" THEN Fail(H, made.err)
            ELSE IF TLen(made.tab.fields) # dim THEN Fail(H, "ValueError")
            ELSE IF ~HasField(made.tab.fields, names_col) THEN Fail(H, "ValueError")
            ELSE
              LET k == FieldIdx(made.tab.fields, names_col)
                  col == made.tab.fields[k]
                  tid == NewTid(H.tabs)
                  install(tab) ==
                    Collect(Done(SetAttrTid(H.objs, c, key, tid),
                                 [H.tabs EXCEPT ![tid] = tab], H.bufs))
              IN  IF col.kind # "i"
                  THEN IF elementwise \/ dim = 0 THEN install(made.tab)
                       ELSE Fail(H, "AttributeError")
                  ELSE IF col.vals # Arange(dim) THEN install(made.tab)
                  ELSE IF ~FitsColumn(names_orig.vals, dim) THEN Fail(H, "ValueError")
                  ELSE IF ~CastOk(names_orig.kind, "i", names_orig.vals)
                  THEN Fail(H, "ValueError")
                  ELSE install([made.tab EXCEPT
                                  !.fields[k].vals = Broadcast(names_orig.vals, dim)])

(***************************************************************************)
(* BoundRecArr.__setitem__(self, keys, values) on table tid: keys a list   *)
(* of column names, values the value columns (rows of np.array(values)),   *)
(* vkind the dtype kind of that array.                                     *)
(***************************************************************************)
(* the order np.intersect1d / np.setdiff1d sort names in *)
NameOrder == <<"a", "b", "smp_names", "var_names">>

Rank(n) == CHOOSE k \in DOMAIN NameOrder : NameOrder[k] = n

(* the names of S in sorted order *)
Sorted(S) == SelectSeq(NameOrder, LAMBDA n : n \in S)

(* values[np.in1d(keys, S)]: the value columns whose key is in S, in key order *)
RowsOf(keys, values, S) ==
  LET ks == SelectSeq([k \in DOMAIN keys |-> k], LAMBDA k : keys[k] \in S)
  IN  [i \in DOMAIN ks |-> values[ks[i]]]

(* what numpy.ma fills a masked entry with when the mask is dropped *)
FillValue(kind) == IF kind = "i" THEN "999999" ELSE "N/A"

Pad(col, n, kind) == [k \in 1..n |-> IF k <= Len(col) THEN col[k] ELSE FillValue(kind)]

(* the table after `for k, v in zip(present, ...): self[k] = v` ran over   *)
(* the first m pairs, each assignment having succeeded                     *)
Overwrite(fields, present, rows, m) ==
  [i \in DOMAIN fields |->
     IF \E j \in 1..m : present[j] = fields[i].name
     THEN LET j == CHOOSE j \in 1..m : present[j] = fields[i].name
          IN  [fields[i] EXCEPT !.vals = Broadcast(rows[j], TLen(fields))]
     ELSE fields[i]]

recsetitem(H, tid, keys, values, vkind) ==
  LET self == H.tabs[tid]
      names == Range(FieldNames(self.fields))
      n == TLen(self.fields)
      present == Sorted(Range(keys) \cap names)
      absent == Sorted(Range(keys) \ names)
      prows == RowsOf(keys, values, Range(present))
      arows == RowsOf(keys, values, Range(absent))
      np == Min(Len(present), Len(prows))
      fits(j) == /\ FitsColumn(prows[j], n)
                 /\ CastOk(vkind, self.fields[FieldIdx(self.fields, present[j])].kind,
                           prows[j])
      (* the pairs assigned before the first refused one *)
      good == IF \A j \in 1..np : fits(j) THEN np
              ELSE FirstOf({j \in 1..np : ~fits(j)}) - 1
      after == Overwrite(self.fields, present, prows, good)
      T1 == [H.tabs EXCEPT ![tid].fields = after]
      attr == IF self.name_col = SMP_NAMES THEN "smp" ELSE "var"
  IN  IF Len(keys) # Len(values) THEN Fail(H, "ValueError")
      ELSE IF good < np THEN Fail(Heap(H.objs, T1, H.bufs), "ValueError")
      ELSE IF absent = <<>> THEN Done(H.objs, T1, H.bufs)
      ELSE IF Len(values[1]) > n THEN Fail(Heap(H.objs, T1, H.bufs), "ValueError")
      ELSE
        LET source == after \o [i \in DOMAIN absent |->
                                  Field(absent[i], vkind, Pad(arows[i], n, vkind))]
            new == BoundRecArrNew(SrcRec(source), self.name_col, self.parent, -1).tab
            nt == NewTid(T1)
            T2 == [T1 EXCEPT ![nt] = new]
        IN  IF self.parent = 0 THEN Collect(Done(H.objs, T1, H.bufs))
            ELSE Collect(Done(SetAttrTid(H.objs, self.parent, attr, nt), T2, H.bufs))

(***************************************************************************)
(* The inputs the operations are called with.                              *)
(***************************************************************************)
Packed(r, c) == [str |-> FALSE, key |-> "", tuple |-> TRUE, row |-> r, col |-> c]

Bare(r) == [str |-> FALSE, key |-> "", tuple |-> FALSE, row |-> r, col |-> SAll]

StrKey(k) == [str |-> TRUE, key |-> k, tuple |-> FALSE, row |-> SAll, col |-> SAll]

NoIndex == StrKey("")

Sels ==
  { SAll, SInt(1), SStr("A"), SStr("b"), SStr("X"),
    SSlice(BStr("A"), BStr("B")), SSlice(BStr("b"), BStr("c")),
    SSlice(BInt(0), BInt(2)), SSlice(BStr("b"), BNone),
    SSlice(BStr("a"), BStr("X")), SSlice(BStr("X"), BNone),
    SList(<<BInt(0), BInt(1)>>), SList(<<BStr("a"), BStr("c")>>),
    SList(<<BStr("B"), BStr("A")>>),
    SArray(<<BBool(FALSE), BBool(TRUE), BBool(TRUE)>>),
    SList(<<BBool(FALSE), BBool(TRUE), BBool(TRUE)>>) }

GetIndexes == {Packed(r, c) : r \in Sels, c \in Sels} \cup {Bare(r) : r \in Sels}

SetIndexes ==
  { StrKey("k1"), StrKey("k2"), Packed(SInt(1), SAll), Packed(SStr("A"), SStr("b")),
    Packed(SList(<<BInt(0), BInt(1)>>), SList(<<BInt(0), BInt(1)>>)),
    Packed(SAll, SStr("X")) }

DelIndexes == { Packed(SInt(1), SAll), Packed(SAll, SStr("b")), Packed(SStr("X"), SAll) }

X23 == ArrOwn("ndarray", <<2, 3>>, <<<<1, 2, 3>>, <<4, 5, 6>>>>)

XM22 == ArrOwn("masked", <<2, 2>>, <<<<1, 2>>, <<3, 4>>>>)

NamesMap(name_col, vals) == SrcMap(<<Field(name_col, "U", vals)>>)

ConstructInputs ==
  { [X |-> X23, smp |-> SrcNone, var |-> SrcNone, add |-> EmptyAdd],
    [X |-> X23, smp |-> NamesMap(SMP_NAMES, <<"A", "B">>),
     var |-> NamesMap(VAR_NAMES, <<"a", "b", "c">>), add |-> [EmptyAdd EXCEPT !["k1"] = 1]],
    [X |-> X23, smp |-> SrcMap(<<Field("a", "U", <<"A", "B">>)>>),
     var |-> SrcMap(<<Field("b", "U", <<"a", "b", "c">>)>>), add |-> EmptyAdd],
    [X |-> X23, smp |-> NamesMap(SMP_NAMES, <<"A", "A">>),
     var |-> NamesMap(VAR_NAMES, <<"b", "c", "b">>), add |-> EmptyAdd],
    [X |-> X23, smp |-> SrcMap(<<Field("a", "i", <<"1", "2", "3", "4">>)>>),
     var |-> SrcNone, add |-> EmptyAdd],
    [X |-> XM22, smp |-> NamesMap(SMP_NAMES, <<"A", "B">>),
     var |-> SrcNone, add |-> EmptyAdd] }

AttrMaps ==
  { SrcMap(<<Field("a", "i", <<"1", "2">>)>>),
    SrcMap(<<Field("a", "i", <<"1", "2", "3">>)>>),
    SrcMap(<<Field(SMP_NAMES, "i", <<"1", "2">>)>>),
    SrcMap(<<Field(VAR_NAMES, "U", <<"x", "y", "z">>)>>) }

ColumnInputs ==
  { [keys |-> <<"a">>, values |-> <<<<"1", "2">>>>, vkind |-> "i"],
    [keys |-> <<"b", "a">>, values |-> <<<<"p", "q">>, <<"r", "s">>>>, vkind |-> "U"],
    [keys |-> <<"a">>, values |-> <<<<"1", "2", "3", "4">>>>, vkind |-> "i"],
    [keys |-> <<"b">>, values |-> <<<<"7">>>>, vkind |-> "i"],
    [keys |-> <<SMP_NAMES>>, values |-> <<<<"C", "D">>>>, vkind |-> "U"] }

SetValues == {9}

(***************************************************************************)
(* The state machine: one action per operation of the container.  last     *)
(* records the latest call and how it ended; steps counts the calls.       *)
(***************************************************************************)
NoArg ==
  [X |-> NoArr, smp |-> SrcNone, var |-> SrcNone, add |-> EmptyAdd, map |-> SrcNone,
   keys |-> <<>>, values |-> <<>>, vkind |-> "", ew |-> FALSE, val |-> 0, tid |-> 0,
   ddata |-> NoDdata, after |-> NoDdata, name_col |-> "", n_row |-> -1]

ConstructArg(in) ==
  [NoArg EXCEPT !.X = in.X, !.smp = in.smp, !.var = in.var, !.add = in.add]

Call(op, src, dst, index, err) ==
  [op |-> op, src |-> src, dst |-> dst, index |-> index, err |-> err]

H0 == Heap(objs, tabs, bufs)

Becomes(R, op, src, dst, index) ==
  /\ objs' = R.objs
  /\ tabs' = R.tabs
  /\ bufs' = R.bufs
  /\ last' = Call(op, src, dst, index, R.err)
  /\ steps' = steps + 1
  /\ held' = held

EmptyHeap ==
  Heap([c \in Slots |-> NoObj], [t \in TIds |-> NoTab], [b \in BIds |-> NoBuf])

(* the program has constructed its first container *)
Init ==
  \E in \in ConstructInputs :
    LET R == AnnDataInit(EmptyHeap, 1, in.X, in.smp, in.var, in.add)
    IN  /\ held = 0
        /\ R.err = "ok"
        /\ objs = R.objs
        /\ tabs = R.tabs
        /\ bufs = R.bufs
        /\ last = Call("init", 0, 1, NoIndex, "ok")
        /\ steps = 0
        /\ arg = ConstructArg(in)

Construct(dst, in) ==
  /\ steps < MaxSteps
  /\ Becomes(AnnDataInit(H0, dst, in.X, in.smp, in.var, in.add), "init", 0, dst, NoIndex)
  /\ arg' = ConstructArg(in)

GetItem(src, dst, index) ==
  /\ steps < MaxSteps
  /\ objs[src].live
  /\ src # dst
  /\ Becomes(getitem(H0, src, dst, index), "getitem", src, dst, index)
  /\ arg' = NoArg

Transpose(src, dst) ==
  /\ steps < MaxSteps
  /\ objs[src].live
  /\ src # dst
  /\ Becomes(transpose(H0, src, dst), "transpose", src, dst, NoIndex)
  /\ arg' = NoArg

SetItem(c, index, val) ==
  /\ steps < MaxSteps
  /\ objs[c].live
  /\ Becomes(setitem(H0, c, index, val), "setitem", c, c, index)
  /\ arg' = [NoArg EXCEPT !.val = val]

DelItem(c, index) ==
  /\ steps < MaxSteps
  /\ objs[c].live
  /\ Becomes(delitem(H0, c, index), "delitem", c, c, index)
  /\ arg' = NoArg

SetAttrMap(c, key, src, elementwise) ==
  /\ steps < MaxSteps
  /\ objs[c].live
  /\ Becomes(setattr(H0, c, key, [bound |-> FALSE, tid |-> 0, src |-> src], elementwise),
             "setattr", c, c, StrKey(key))
  /\ arg' = [NoArg EXCEPT !.map = src, !.ew = elementwise]

SetColumns(c, key, in) ==
  /\ steps < MaxSteps
  /\ objs[c].live
  /\ Becomes(recsetitem(H0, AttrTid(objs[c], key), in.keys, in.values, in.vkind),
             "setcolumns", c, c, StrKey(key))
  /\ arg' = [NoArg EXCEPT !.keys = in.keys, !.values = in.values, !.vkind = in.vkind]

SetAttrTable(c, key, tid) ==
  /\ steps < MaxSteps
  /\ objs[c].live
  /\ tabs[tid].live
  /\ Becomes(setattr(H0, c, key, [bound |-> TRUE, tid |-> tid, src |-> SrcNone], TRUE),
             "setattr_table", c, c, StrKey(key))
  /\ arg' = [NoArg EXCEPT !.tid = tid]

Next ==
  \/ \E dst \in Slots, in \in ConstructInputs : Construct(dst, in)
  \/ \E src \in Slots, dst \in Slots, index \in GetIndexes : GetItem(src, dst, index)
  \/ \E src \in Slots, dst \in Slots : Transpose(src, dst)
  \/ \E c \in Slots, index \in SetIndexes, val \in SetValues : SetItem(c, index, val)
  \/ \E c \in Slots, index \in DelIndexes : DelItem(c, index)
  \/ \E c \in Slots, key \in Axes, src \in AttrMaps, ew \in BOOLEAN :
       SetAttrMap(c, key, src, ew)
  \/ \E c \in Slots, key \in Axes, in \in ColumnInputs : SetColumns(c, key, in)

Spec == Init /\ [][Next]_vars

NextTable ==
  \/ Next
  \/ \E c \in Slots, key \in Axes, tid \in TIds : SetAttrTable(c, key, tid)

SpecTable == Init /\ [][NextTable]_vars

(***************************************************************************)
(* Construction from a combined mapping (AnnData(ddata)).                  *)
(***************************************************************************)
Ddata(rn, sn, cn, row, smp, col, add) ==
  [X |-> X23, row_names |-> rn, smp_names |-> sn, col_names |-> cn,
   var_names |-> NoList, row |-> row, smp |-> smp, col |-> col, var |-> NoNested,
   add |-> add]

DdataInputs ==
  { Ddata(rn, sn, NoList, row, smp, NoNested, [EmptyAdd EXCEPT !["k1"] = 1]) :
      rn \in {NoList, AList(<<"A", "B">>)},
      sn \in {NoList, AList(<<"C", "D">>)},
      row \in {NoNested, Nested(<<Field(SMP_NAMES, "U", <<"x", "y">>)>>),
               Nested(<<Field("g", "i", <<"1", "2">>)>>)},
      smp \in {NoNested,
               Nested(<<Field("g", "i", <<"3", "4">>),
                        Field(SMP_NAMES, "U", <<"p", "q">>)>>)} }
  \cup
  { Ddata(AList(<<"A", "B">>), NoList, cn, NoNested, NoNested, col, add) :
      cn \in {NoList, AList(<<"a", "b", "c">>)},
      col \in {NoNested, Nested(<<Field(VAR_NAMES, "U", <<"u", "v", "w">>)>>)},
      add \in {EmptyAdd, [EmptyAdd EXCEPT !["k2"] = 2]} }

DdataArg(ddata) == [NoArg EXCEPT !.ddata = ddata, !.after = from_ddata(ddata).ddata]

InitDdata ==
  \E ddata \in DdataInputs :
    LET R == AnnDataInitDdata(EmptyHeap, 1, ddata)
    IN  /\ held = 0
        /\ R.err = "ok"
        /\ objs = R.objs
        /\ tabs = R.tabs
        /\ bufs = R.bufs
        /\ last = Call("init_ddata", 0, 1, NoIndex, "ok")
        /\ steps = 0
        /\ arg = DdataArg(ddata)

ConstructDdata(dst, ddata) ==
  /\ steps < MaxSteps
  /\ Becomes(AnnDataInitDdata(H0, dst, ddata), "init_ddata", 0, dst, NoIndex)
  /\ arg' = DdataArg(ddata)

NextDdata == \E dst \in Slots, ddata \in DdataInputs : ConstructDdata(dst, ddata)

SpecDdata == InitDdata /\ [][NextDdata]_vars

(***************************************************************************)
(* Columns set through a table the program got hold of earlier:            *)
(* t = m.smp, then t[keys] = values.  Reading the attribute changes        *)
(* nothing in the heap and is not counted as a call.                       *)
(***************************************************************************)
TakeHandle(c, key) ==
  /\ objs[c].live
  /\ held' = AttrTid(objs[c], key)
  /\ last' = Call("gettable", c, c, StrKey(key), "ok")
  /\ arg' = NoArg
  /\ UNCHANGED <<objs, tabs, bufs, steps>>

SetColumnsHeld(in) ==
  /\ steps < MaxSteps
  /\ held # 0
  /\ tabs[held].live
  /\ Becomes(recsetitem(H0, held, in.keys, in.values, in.vkind), "setcolumns_held",
             tabs[held].parent, tabs[held].parent,
             StrKey(IF tabs[held].name_col = SMP_NAMES THEN "smp" ELSE "var"))
  /\ arg' = [NoArg EXCEPT !.keys = in.keys, !.values = in.values, !.vkind = in.vkind]

NextHandle ==
  \/ \E c \in Slots, key \in Axes : TakeHandle(c, key)
  \/ \E c \in Slots, key \in Axes, in \in ColumnInputs : SetColumns(c, key, in)
  \/ \E in \in ColumnInputs : SetColumnsHeld(in)

SpecHandle == Init /\ [][NextHandle]_vars

(***************************************************************************)
(* A table constructed on its own, t = BoundRecArr(source, name_col, None, *)
(* n_row), the program keeping the result in t (held).  A call that raises *)
(* binds nothing.                                                          *)
(***************************************************************************)
Col(len) == [k \in 1..len |-> ToString(k)]

ColumnNames ==
  { <<"a">>, <<SMP_NAMES>>, <<"a", "b">>, <<SMP_NAMES, "a">>, <<"a", SMP_NAMES>>,
    <<"a", "b", "c">> }

Lens == 1..MaxColLen

TableSources ==
  UNION { { SrcMap([i \in DOMAIN names |-> Field(names[i], "i", Col(lens[i]))]) :
              lens \in [DOMAIN names -> Lens] } : names \in ColumnNames }
  \cup { SrcNone, SrcMap(<<>>), SrcRec(<<Field(SMP_NAMES, "U", <<"A", "B">>)>>),
         [t |-> "list", fields |-> <<>>] }

RowHints == {-1, 2}

InitNewTable ==
  /\ held = 0
  /\ objs = EmptyHeap.objs
  /\ tabs = EmptyHeap.tabs
  /\ bufs = EmptyHeap.bufs
  /\ last = Call("none", 0, 0, NoIndex, "ok")
  /\ steps = 0
  /\ arg = NoArg

NewTable(source, name_col, n_row) ==
  /\ steps < MaxSteps
  /\ LET R == BoundRecArrNew(source, name_col, 0, n_row)
         nt == NewTid(tabs)
         kept(t) == \E c \in Slots : objs[c].live /\ t \in {objs[c].smp, objs[c].var}
     IN  /\ held' = IF R.err = "ok" THEN nt ELSE held
         /\ tabs' = IF R.err = "ok"
                    THEN [t \in TIds |->
                            IF t = nt THEN R.tab
                            ELSE IF t = held /\ ~kept(t) THEN NoTab
                            ELSE tabs[t]]
                    ELSE tabs
         /\ last' = Call("newtable", 0, 0, NoIndex, R.err)
  /\ steps' = steps + 1
  /\ arg' = [NoArg EXCEPT !.map = source, !.name_col = name_col, !.n_row = n_row]
  /\ UNCHANGED <<objs, bufs>>

NextNewTable ==
  \E source \in TableSources, name_col \in {SMP_NAMES, VAR_NAMES}, n_row \in RowHints :
    NewTable(source, name_col, n_row)

SpecNewTable == InitNewTable /\ [][NextNewTable]_vars

(***************************************************************************)
(* Construction alone, over matrices of every accepted class and of ranks  *)
(* 0 to 3, and over values of other types.                                 *)
(***************************************************************************)
MatrixInputs ==
  { X23, XM22,
    ArrOwn("ndarray", <<2, 2>>, <<<<1, 2>>, <<3, 4>>>>),
    ArrOwn("sparse", <<2, 2>>, <<<<1, 0>>, <<0, 1>>>>),
    ArrOwn("sparse", <<1, 3>>, <<<<1, 0, 2>>>>),
    ArrOwn("masked", <<3, 1>>, <<<<1>>, <<2>>, <<3>>>>),
    ArrOwn("ndarray", <<1, 1>>, <<<<7>>>>),
    ArrOwn("ndarray", <<2>>, <<<<1>>, <<2>>>>),
    ArrOwn("masked", <<3>>, <<<<1>>, <<2>>, <<3>>>>),
    ArrOwn("ndarray", <<>>, <<>>),
    ArrOwn("ndarray", <<2, 2, 2>>, <<>>),
    ArrOwn("list", <<2, 2>>, <<<<1, 2>>, <<3, 4>>>>),
    ArrOwn("NoneType", <<>>, <<>>) }

ShapeInputs ==
  {[X |-> X, smp |-> SrcNone, var |-> SrcNone, add |-> EmptyAdd] : X \in MatrixInputs}

InitConstruct ==
  \E in \in ShapeInputs :
    LET R == AnnDataInit(EmptyHeap, 1, in.X, in.smp, in.var, in.add)
    IN  /\ held = 0
        /\ R.err = "ok"
        /\ objs = R.objs
        /\ tabs = R.tabs
        /\ bufs = R.bufs
        /\ last = Call("init", 0, 1, NoIndex, "ok")
        /\ steps = 0
        /\ arg = ConstructArg(in)

NextConstruct == \E dst \in Slots, in \in ShapeInputs : Construct(dst, in)

SpecConstruct == InitConstruct /\ [][NextConstruct]_vars

(***************************************************************************)
(* What the specification says an index selects, written from its text    *)
(* and independently of _normalize_index: the positions a selector denotes *)
(* on an axis with identifier column names = [kind, vals] of length n.     *)
(***************************************************************************)
SmpFields(T, o) == T[o.smp].fields

VarFields(T, o) == T[o.var].fields

Occurrences(names, s) ==
  IF names.kind = "U" THEN {p \in 0..(Len(names.vals) - 1) : names.vals[p + 1] = s} ELSE {}

Known(names, s) == Cardinality(Occurrences(names, s)) = 1

PosOf(names, s) == CHOOSE p \in Occurrences(names, s) : TRUE

BoundSupported(b, names, n) ==
  \/ b.t = "none"
  \/ b.t = "int" /\ 0 <= b.i /\ b.i <= n
  \/ b.t = "str" /\ Known(names, b.s)

ElemSupported(e, names, n) ==
  \/ e.t = "int" /\ 0 <= e.i /\ e.i < n
  \/ e.t = "str" /\ Known(names, e.s)

IsBoolSel(sel) ==
  sel.kind \in {"list", "array"} /\ sel.elems # <<>>
    /\ \A k \in DOMAIN sel.elems : sel.elems[k].t = "bool"

SelSupported(sel, names, n) ==
  CASE sel.kind \in {"int", "str"} -> ElemSupported(sel.a, names, n)
    [] sel.kind = "slice" -> BoundSupported(sel.a, names, n) /\ BoundSupported(sel.b, names, n)
    [] sel.kind \in {"list", "array"} ->
         IF IsBoolSel(sel) THEN Len(sel.elems) = n
         ELSE \A k \in DOMAIN sel.elems : ElemSupported(sel.elems[k], names, n)
    [] OTHER -> FALSE

ElemPos(e, names) == IF e.t = "str" THEN PosOf(names, e.s) ELSE e.i

TruePositions(es) ==
  LET F[k \in 0..Len(es)] ==
        IF k = 0 THEN <<>>
        ELSE IF es[k].i = 1 THEN Append(F[k - 1], k - 1) ELSE F[k - 1]
  IN  F[Len(es)]

Selected(sel, names, n) ==
  CASE sel.kind \in {"int", "str"} -> <<ElemPos(sel.a, names)>>
    [] sel.kind = "slice" ->
         LET lo == IF sel.a.t = "none" THEN 0 ELSE ElemPos(sel.a, names)
             hi == IF sel.b.t = "none" THEN n
                   ELSE IF sel.b.t = "str" THEN PosOf(names, sel.b.s) + 1
                   ELSE sel.b.i
         IN  Interval(lo, hi)
    [] sel.kind \in {"list", "array"} ->
         IF IsBoolSel(sel) THEN TruePositions(sel.elems)
         ELSE [k \in DOMAIN sel.elems |-> ElemPos(sel.elems[k], names)]

RowsAt(fields, P) == [i \in DOMAIN fields |-> [fields[i] EXCEPT !.vals = Take(@, P)]]

MatrixRows(B, v, P) ==
  [i \in 1..Len(P) |-> [j \in 1..NCols(v) |-> Entry(B, v, P[i], j - 1)]]

MatrixCols(B, v, Q) ==
  [i \in 1..NRows(v) |-> [j \in 1..Len(Q) |-> Entry(B, v, i - 1, Q[j])]]

(* the two selectors of the latest call *)
RowSel == last.index.row

ColSel == IF last.index.tuple THEN last.index.col ELSE SAll

Parent == objs[last.src]

Child == objs[last.dst]

WellFormed(T, o) ==
  /\ HasField(SmpFields(T, o), SMP_NAMES)
  /\ HasField(VarFields(T, o), VAR_NAMES)

ParentRowNames == NamesOf(tabs[Parent.smp], SMP_NAMES)

ParentColNames == NamesOf(tabs[Parent.var], VAR_NAMES)

GotSupported ==
  /\ last.op = "getitem"
  /\ WellFormed(tabs, Parent)
  /\ SelSupported(RowSel, ParentRowNames, NRows(Parent.X))
  /\ SelSupported(ColSel, ParentColNames, NCols(Parent.X))

ExpRows == Selected(RowSel, ParentRowNames, NRows(Parent.X))

ExpCols == Selected(ColSel, ParentColNames, NCols(Parent.X))

(***************************************************************************)
(* C1. In every reachable state every container's row table has as many    *)
(* rows as its matrix and its column table as many rows as the matrix has  *)
(* columns.                                                                *)
(***************************************************************************)
C1_TablesMatchMatrix ==
  \A c \in Slots :
    objs[c].live =>
      /\ TLen(SmpFields(tabs, objs[c])) = NRows(objs[c].X)
      /\ TLen(VarFields(tabs, objs[c])) = NCols(objs[c].X)

(***************************************************************************)
(* C2. Get with a supported pair of selectors returns a container whose    *)
(* row table is the parent's row table at the selected row positions and   *)
(* whose column table is the parent's column table at the selected column  *)
(* positions, in the order of the returned matrix's rows and columns.      *)
(***************************************************************************)
C2_GetSlicesTables ==
  GotSupported =>
    /\ last.err = "ok"
    /\ SmpFields(tabs, Child) = RowsAt(SmpFields(tabs, Parent), ExpRows)
    /\ VarFields(tabs, Child) = RowsAt(VarFields(tabs, Parent), ExpCols)
    /\ NRows(Child.X) = Len(ExpRows)
    /\ NCols(Child.X) = Len(ExpCols)

(***************************************************************************)
(* C3. The two selectors of Get apply independently: for every pair of     *)
(* supported selectors the returned matrix has one row per selected row    *)
(* position and one column per selected column position, and its entry     *)
(* (i, j) is the parent's entry at (i-th selected row, j-th selected       *)
(* column).                                                                *)
(***************************************************************************)
C3_GetSelectsOuterProduct ==
  GotSupported =>
    /\ last.err = "ok"
    /\ Matrix(bufs, Child.X) =
         [i \in 1..Len(ExpRows) |-> [j \in 1..Len(ExpCols) |->
            Entry(bufs, Parent.X, ExpRows[i], ExpCols[j])]]

(***************************************************************************)
(* C7. A boolean selector with one entry per position of its axis, given   *)
(* as a list or as an array, selects exactly the positions whose entry is  *)
(* true, in increasing order (never positions 1 and 0).                    *)
(***************************************************************************)
C7_BooleanSelectorIsMask ==
  /\ (GotSupported /\ last.err = "ok" /\ IsBoolSel(ColSel) /\ RowSel = SAll) =>
       /\ VarFields(tabs, Child) =
            RowsAt(VarFields(tabs, Parent), TruePositions(ColSel.elems))
       /\ Matrix(bufs, Child.X) =
            MatrixCols(bufs, Parent.X, TruePositions(ColSel.elems))
  /\ (GotSupported /\ last.err = "ok" /\ IsBoolSel(RowSel) /\ ColSel = SAll) =>
       /\ SmpFields(tabs, Child) =
            RowsAt(SmpFields(tabs, Parent), TruePositions(RowSel.elems))
       /\ Matrix(bufs, Child.X) =
            MatrixRows(bufs, Parent.X, TruePositions(RowSel.elems))

(***************************************************************************)
(* C4, C6: the positions a label may stand for.  Twins of an index: the    *)
(* indexes obtained by replacing one label (a selector that is a label,    *)
(* the start bound of a slice, or one element of a list) by a position     *)
(* the function At gives for it.                                           *)
(***************************************************************************)
FirstOccurrence(names, s) ==
  IF Occurrences(names, s) = {} THEN {}
  ELSE {CHOOSE p \in Occurrences(names, s) : \A q \in Occurrences(names, s) : p <= q}

SelTwins(sel, names, At(_, _)) ==
  CASE sel.kind = "str" -> {SInt(p) : p \in At(names, sel.a.s)}
    [] sel.kind = "slice" /\ sel.a.t = "str" ->
         {SSlice(BInt(p), sel.b) : p \in At(names, sel.a.s)}
    [] sel.kind = "list" ->
         UNION {{[sel EXCEPT !.elems[k] = BInt(p)] : p \in At(names, sel.elems[k].s)} :
                  k \in {m \in DOMAIN sel.elems : sel.elems[m].t = "str"}}
    [] OTHER -> {}

Twins(At(_, _)) ==
  {[last.index EXCEPT !.row = t] : t \in SelTwins(RowSel, ParentRowNames, At)}
    \cup (IF last.index.tuple
          THEN {[last.index EXCEPT !.col = t] : t \in SelTwins(ColSel, ParentColNames, At)}
          ELSE {})

(* the call recorded in last ended as the outcome R of a call on the same  *)
(* parent does: the same error, or the same matrix and tables              *)
SameOutcome(R) ==
  /\ R.err = last.err
  /\ last.err = "ok" =>
       /\ Matrix(R.bufs, R.objs[last.dst].X) = Matrix(bufs, Child.X)
       /\ SmpFields(R.tabs, R.objs[last.dst]) = SmpFields(tabs, Child)
       /\ VarFields(R.tabs, R.objs[last.dst]) = VarFields(tabs, Child)

(***************************************************************************)
(* C4 as stated. Get with a label l (alone, as a slice start bound, or as  *)
(* a list element) and Get with p in the same place return identical       *)
(* sub-containers, for every position p at which the identifier column     *)
(* holds l.                                                                *)
(***************************************************************************)
C4_LabelEqualsAnyPosition ==
  (last.op = "getitem" /\ WellFormed(tabs, Parent)) =>
    \A t \in Twins(Occurrences) : SameOutcome(getitem(H0, last.src, last.dst, t))

(***************************************************************************)
(* C4 amended. Get with a label l (alone, as a slice start bound, or as a  *)
(* list element) and Get with p in the same place return identical         *)
(* sub-containers, where p is the first position at which the identifier   *)
(* column holds l.                                                         *)
(***************************************************************************)
C4_LabelEqualsFirstPosition ==
  (last.op = "getitem" /\ WellFormed(tabs, Parent)) =>
    \A t \in Twins(FirstOccurrence) : SameOutcome(getitem(H0, last.src, last.dst, t))

C4_Witness ==
  /\ last.op = "getitem"
  /\ last.err = "ok"
  /\ RowSel = SStr("A")
  /\ ParentRowNames.vals = <<"A", "A">>
  /\ ColSel = SSlice(BStr("b"), BStr("c"))
  /\ Cardinality(Twins(FirstOccurrence)) = 2

(***************************************************************************)
(* C5. Get with a label that the identifier column of the addressed axis   *)
(* does not hold (as the row selector, as the column selector, or as the   *)
(* start or stop bound of a slice) fails with IndexError and returns no    *)
(* container: nothing is bound and nothing changes.                        *)
(***************************************************************************)
UnknownLabel(sel, names) ==
  \/ sel.kind = "str" /\ Occurrences(names, sel.a.s) = {}
  \/ sel.kind = "slice" /\ sel.a.t = "str" /\ Occurrences(names, sel.a.s) = {}
  \/ sel.kind = "slice" /\ sel.b.t = "str" /\ Occurrences(names, sel.b.s) = {}

C5_UnknownLabelFails ==
  [][(/\ last'.op = "getitem"
      /\ WellFormed(tabs, objs[last'.src])
      /\ \/ UnknownLabel(last'.index.row, NamesOf(tabs[objs[last'.src].smp], SMP_NAMES))
         \/ /\ last'.index.tuple
            /\ UnknownLabel(last'.index.col, NamesOf(tabs[objs[last'.src].var], VAR_NAMES)))
     => /\ last'.err = "IndexError"
        /\ objs' = objs
        /\ tabs' = tabs
        /\ bufs' = bufs]_vars

C5_Witness ==
  /\ last.op = "getitem"
  /\ last.err = "IndexError"
  /\ RowSel = SAll
  /\ ColSel = SSlice(BStr("a"), BStr("X"))
  /\ ParentColNames.vals = <<"a", "b", "c">>

(***************************************************************************)
(* C6: the positions a slice selector a : b is said to cover on an axis of *)
(* length n, as the set of (lo, hi) with lo..hi-1 covered: a str bound     *)
(* stands for a position At gives for it (the stop bound included), an int *)
(* stop bound is excluded, None leaves the side open.                      *)
(***************************************************************************)
SliceCovers(sel, names, n, At(_, _)) ==
  LET los == CASE sel.a.t = "none" -> {0}
               [] sel.a.t = "int" -> {sel.a.i} \cap (0..n)
               [] sel.a.t = "str" -> At(names, sel.a.s)
               [] OTHER -> {}
      his == CASE sel.b.t = "none" -> {n}
               [] sel.b.t = "int" -> {sel.b.i} \cap (0..n)
               [] sel.b.t = "str" -> {q + 1 : q \in At(names, sel.b.s)}
               [] OTHER -> {}
  IN  IF sel.kind = "slice"
      THEN {c \in los \X his : c[1] <= c[2] /\ (sel.b.t = "str" => c[1] < c[2])}
      ELSE {}

(* the Get recorded in last, when it returned, selected the covered        *)
(* positions: its table on the sliced axis holds the parent's entries at   *)
(* them and, the other axis being whole, so does its matrix                *)
SliceSelects(At(_, _)) ==
  (last.op = "getitem" /\ WellFormed(tabs, Parent)) =>
    /\ \A c \in SliceCovers(RowSel, ParentRowNames, NRows(Parent.X), At) :
         /\ last.err = "ok" =>
              SmpFields(tabs, Child) = RowsAt(SmpFields(tabs, Parent), Interval(c[1], c[2]))
         /\ (last.err = "ok" /\ ColSel = SAll) =>
              Matrix(bufs, Child.X) = MatrixRows(bufs, Parent.X, Interval(c[1], c[2]))
    /\ \A c \in SliceCovers(ColSel, ParentColNames, NCols(Parent.X), At) :
         /\ last.err = "ok" =>
              VarFields(tabs, Child) = RowsAt(VarFields(tabs, Parent), Interval(c[1], c[2]))
         /\ (last.err = "ok" /\ RowSel = SAll) =>
              Matrix(bufs, Child.X) = MatrixCols(bufs, Parent.X, Interval(c[1], c[2]))

(***************************************************************************)
(* C6 as stated. For labels s at position p and t at position q >= p the   *)
(* selector s : t selects exactly the positions p..q, q included; an       *)
(* integer stop bound is exclusive and a None bound leaves its side open.  *)
(***************************************************************************)
C6_StringStopInclusiveAnyPosition == SliceSelects(Occurrences)

(***************************************************************************)
(* C6 amended. For labels s whose first occurrence is at position p and t  *)
(* whose first occurrence is at position q >= p the selector s : t selects *)
(* exactly the positions p..q, q included; an integer stop bound is        *)
(* exclusive and a None bound leaves its side open.                        *)
(***************************************************************************)
C6_StringStopInclusive == SliceSelects(FirstOccurrence)

C6_Witness ==
  /\ last.op = "getitem"
  /\ last.err = "ok"
  /\ RowSel = SSlice(BInt(0), BInt(2))
  /\ ColSel = SSlice(BStr("b"), BStr("c"))
  /\ ParentColNames.vals = <<"a", "b", "c">>
  /\ NamesOf(tabs[Child.var], VAR_NAMES).vals = <<"b", "c">>
  /\ Matrix(bufs, Child.X) = <<<<2, 3>>, <<5, 6>>>>

(***************************************************************************)
(* C8. A call of Transpose on c leaves c as it was: its matrix, its row    *)
(* and column tables (contents, field names, the name of the identifier    *)
(* column) and its extra mapping are what they were before the call.       *)
(***************************************************************************)
C8_TransposeLeavesOriginal ==
  [][last'.op = "transpose" =>
       /\ objs'[last'.src] = objs[last'.src]
       /\ tabs'[objs[last'.src].smp].fields = tabs[objs[last'.src].smp].fields
       /\ tabs'[objs[last'.src].smp].name_col = tabs[objs[last'.src].smp].name_col
       /\ tabs'[objs[last'.src].var].fields = tabs[objs[last'.src].var].fields
       /\ tabs'[objs[last'.src].var].name_col = tabs[objs[last'.src].var].name_col
       /\ Matrix(bufs', objs'[last'.src].X) = Matrix(bufs, objs[last'.src].X)]_vars

C8_Witness ==
  /\ last.op = "transpose"
  /\ last.err = "ok"
  /\ steps = 2
  /\ Parent.add["k1"] = 1
  /\ tabs[Parent.smp].name_col = SMP_NAMES
  /\ ParentRowNames.vals = <<"A", "B">>
  /\ ParentColNames.vals = <<"a", "b", "c">>

(***************************************************************************)
(* C9. Transpose returns a new container whose matrix is the transpose of  *)
(* the original's, whose row table is the original's column table with the *)
(* identifier column renamed to the row identifier name, whose column      *)
(* table is the original's row table renamed likewise, and whose extra     *)
(* mapping has the original's keys and values.                             *)
(***************************************************************************)
C9_TransposeResult ==
  last.op = "transpose" =>
    /\ last.err = "ok"
    /\ Child.live
    /\ {Child.smp, Child.var} \cap {Parent.smp, Parent.var} = {}
    /\ Matrix(bufs, Child.X) =
         [i \in 1..NCols(Parent.X) |-> [j \in 1..NRows(Parent.X) |->
            Entry(bufs, Parent.X, j - 1, i - 1)]]
    /\ tabs[Child.smp].name_col = SMP_NAMES
    /\ tabs[Child.var].name_col = VAR_NAMES
    /\ SmpFields(tabs, Child) =
         [i \in DOMAIN VarFields(tabs, Parent) |->
            [VarFields(tabs, Parent)[i] EXCEPT
               !.name = IF @ = VAR_NAMES THEN SMP_NAMES ELSE @]]
    /\ VarFields(tabs, Child) =
         [i \in DOMAIN SmpFields(tabs, Parent) |->
            [SmpFields(tabs, Parent)[i] EXCEPT
               !.name = IF @ = SMP_NAMES THEN VAR_NAMES ELSE @]]
    /\ Child.add = Parent.add

(***************************************************************************)
(* C10. Transposing twice is the identity on content: the transpose of the *)
(* transpose of c has c's matrix and c's row and column identifier         *)
(* sequences, same values in the same order.                               *)
(***************************************************************************)
C10_TransposeTwice ==
  [][(/\ last.op = "transpose"
      /\ last.err = "ok"
      /\ last'.op = "transpose"
      /\ last'.err = "ok"
      /\ last'.src = last.dst)
     => /\ Matrix(bufs', objs'[last'.dst].X) = Matrix(bufs, objs[last.src].X)
        /\ NamesOf(tabs'[objs'[last'.dst].smp], SMP_NAMES) =
             NamesOf(tabs[objs[last.src].smp], SMP_NAMES)
        /\ NamesOf(tabs'[objs'[last'.dst].var], VAR_NAMES) =
             NamesOf(tabs[objs[last.src].var], VAR_NAMES)]_vars

C10_Witness ==
  /\ last.op = "transpose"
  /\ last.err = "ok"
  /\ steps = 2
  /\ Parent.X.tr
  /\ ~Child.X.tr
  /\ Matrix(bufs, Child.X) = <<<<1, 2, 3>>, <<4, 5, 6>>>>
  /\ NamesOf(tabs[Child.smp], SMP_NAMES).vals = <<"A", "B">>
  /\ NamesOf(tabs[Child.var], VAR_NAMES).vals = <<"a", "b", "c">>

(***************************************************************************)
(* C11..C14: the table attribute a call addressed (recorded in last.index  *)
(* as the key "smp" or "var"), read in a heap of containers o and tables T *)
(***************************************************************************)
KeyNameCol(key) == IF key = "smp" THEN SMP_NAMES ELSE VAR_NAMES

KeyDim(o, c, key) == IF key = "smp" THEN NRows(o[c].X) ELSE NCols(o[c].X)

KeyFields(o, T, c, key) == T[AttrTid(o[c], key)].fields

ColumnOf(fields, n) == fields[FieldIdx(fields, n)]

(* a mapping of auxiliary columns only, each of the length dim *)
AuxOnly(map, names_col, dim) ==
  /\ map.t = "map"
  /\ map.fields # <<>>
  /\ ~HasField(map.fields, names_col)
  /\ \A i \in DOMAIN map.fields : Len(map.fields[i].vals) = dim

(***************************************************************************)
(* C11. Assigning to the row-table or column-table attribute a mapping of  *)
(* auxiliary columns only, on a container whose axis carries labels of any *)
(* element type, succeeds and installs a table that has the new auxiliary  *)
(* columns and whose identifier column still holds the previous labels.    *)
(***************************************************************************)
C11_AuxMappingKeepsLabels ==
  [][(/\ last'.op = "setattr"
      /\ WellFormed(tabs, objs[last'.src])
      /\ AuxOnly(arg'.map, KeyNameCol(last'.index.key),
                 KeyDim(objs, last'.src, last'.index.key)))
     => /\ last'.err = "ok"
        /\ HasField(KeyFields(objs', tabs', last'.src, last'.index.key),
                    KeyNameCol(last'.index.key))
        /\ ColumnOf(KeyFields(objs', tabs', last'.src, last'.index.key),
                    KeyNameCol(last'.index.key)).vals =
             ColumnOf(KeyFields(objs, tabs, last'.src, last'.index.key),
                      KeyNameCol(last'.index.key)).vals
        /\ \A i \in DOMAIN arg'.map.fields :
             /\ HasField(KeyFields(objs', tabs', last'.src, last'.index.key),
                         arg'.map.fields[i].name)
             /\ ColumnOf(KeyFields(objs', tabs', last'.src, last'.index.key),
                         arg'.map.fields[i].name).vals = arg'.map.fields[i].vals]_vars

(***************************************************************************)
(* C12: the length of an annotation source (a mapping whose columns agree  *)
(* on one length, or a table); -1 for a source that carries no length.     *)
(***************************************************************************)
SrcLen(src) ==
  IF src.t = "rec" THEN TLen(src.fields)
  ELSE IF /\ src.t = "map"
          /\ src.fields # <<>>
          /\ \A i \in DOMAIN src.fields : Len(src.fields[i].vals) = Len(src.fields[1].vals)
  THEN Len(src.fields[1].vals)
  ELSE -1

Disagrees(src, dim) == SrcLen(src) >= 0 /\ SrcLen(src) # dim

Untouched ==
  /\ objs' = objs
  /\ tabs' = tabs
  /\ bufs' = bufs

(***************************************************************************)
(* C12. An annotation source whose length disagrees with the matrix's      *)
(* dimension is rejected with ValueError: at construction no container is  *)
(* produced, at re-assignment of the row-table or column-table attribute   *)
(* (with a mapping or with an existing table) the container keeps its      *)
(* table, matrix and extra.                                                *)
(***************************************************************************)
C12_LengthMismatchRejected ==
  [][/\ (/\ last'.op = "init"
         /\ Len(arg'.X.shape) = 2
         /\ \/ Disagrees(arg'.smp, arg'.X.shape[1])
            \/ Disagrees(arg'.var, arg'.X.shape[2]))
        => (last'.err = "ValueError" /\ Untouched)
     /\ (/\ last'.op = "setattr"
         /\ Disagrees(arg'.map, KeyDim(objs, last'.src, last'.index.key)))
        => (last'.err = "ValueError" /\ Untouched)
     /\ (/\ last'.op = "setattr_table"
         /\ TLen(tabs[arg'.tid].fields) # KeyDim(objs, last'.src, last'.index.key))
        => (last'.err = "ValueError" /\ Untouched)]_vars

(***************************************************************************)
(* C13, C14: a SetColumns call with distinct names, one value column per   *)
(* name, on the table the container holds, existing columns being given    *)
(* values of their own kind.                                               *)
(***************************************************************************)
Distinct(seq) == \A i, j \in DOMAIN seq : seq[i] = seq[j] => i = j

ColumnsCall(o, T, c, key, a) ==
  /\ a.keys # <<>>
  /\ Distinct(a.keys)
  /\ Len(a.keys) = Len(a.values)
  /\ T[AttrTid(o[c], key)].parent = c
  /\ \A i \in DOMAIN a.keys :
       HasField(KeyFields(o, T, c, key), a.keys[i]) =>
         ColumnOf(KeyFields(o, T, c, key), a.keys[i]).kind = a.vkind

(* the names of the columns of fields that are not in the set S, in order *)
(***************************************************************************)
(* C13. SetColumns with parallel lists of names and value columns, every   *)
(* column of the table's length, pairs them by position: afterwards the    *)
(* column names[i] reads back valueColumns[i], whatever the order of the   *)
(* names; the other columns keep their values, the pre-existing columns    *)
(* their order, and new columns come after them.                           *)
(***************************************************************************)
C13_SetColumnsPairsByPosition ==
  [][(/\ last'.op = "setcolumns"
      /\ ColumnsCall(objs, tabs, last'.src, last'.index.key, arg')
      /\ \A i \in DOMAIN arg'.values :
           Len(arg'.values[i]) = TLen(KeyFields(objs, tabs, last'.src, last'.index.key)))
     => LET c == last'.src
            key == last'.index.key
            old == KeyFields(objs, tabs, c, key)
            new == KeyFields(objs', tabs', c, key)
        IN  /\ last'.err = "ok"
            /\ \A i \in DOMAIN arg'.keys :
                 /\ HasField(new, arg'.keys[i])
                 /\ ColumnOf(new, arg'.keys[i]).vals = arg'.values[i]
            /\ \A i \in DOMAIN old :
                 old[i].name \notin Range(arg'.keys) =>
                   (HasField(new, old[i].name) /\ ColumnOf(new, old[i].name) = old[i])
            /\ SubSeq(FieldNames(new), 1, Len(old)) = FieldNames(old)
            /\ Range(FieldNames(new)) = Range(FieldNames(old)) \cup Range(arg'.keys)]_vars

(***************************************************************************)
(* C14. SetColumns rejects every value column whose length differs from    *)
(* the table's row count, longer or shorter, for new and for existing      *)
(* names: the call fails with ValueError and the container's table is left *)
(* as it was.                                                              *)
(***************************************************************************)
C14_SetColumnsRejectsWrongLength ==
  [][(/\ last'.op = "setcolumns"
      /\ ColumnsCall(objs, tabs, last'.src, last'.index.key, arg')
      /\ \E i \in DOMAIN arg'.values :
           Len(arg'.values[i]) # TLen(KeyFields(objs, tabs, last'.src, last'.index.key)))
     => (last'.err = "ValueError" /\ Untouched)]_vars

(***************************************************************************)
(* C15. A matrix of shape R x C in any of the three accepted              *)
(* representations gives a container of matrix shape (R, C), length R, a   *)
(* row table of R entries and a column table of C entries; a 1-D input of  *)
(* length N gives shape N x 1; a matrix of any other rank is rejected with *)
(* ValueError.                                                             *)
(***************************************************************************)
Accepted == {"ndarray", "masked", "sparse"}

HasShape(self, R, C) ==
  /\ self.live
  /\ NRows(self.X) = R
  /\ NCols(self.X) = C
  /\ AnnDataLen(self) = R
  /\ TLen(SmpFields(tabs, self)) = R
  /\ TLen(VarFields(tabs, self)) = C

C15_ConstructedShape ==
  (last.op = "init" /\ arg.X.cls \in Accepted /\ arg.smp = SrcNone /\ arg.var = SrcNone) =>
    CASE Len(arg.X.shape) = 2 ->
           last.err = "ok" /\ HasShape(objs[last.dst], arg.X.shape[1], arg.X.shape[2])
      [] Len(arg.X.shape) = 1 ->
           last.err = "ok" /\ HasShape(objs[last.dst], arg.X.shape[1], 1)
      [] OTHER -> last.err = "ValueError"

C15_Witness ==
  /\ last.op = "init"
  /\ last.err = "ok"
  /\ steps = 2
  /\ arg.X.cls = "masked"
  /\ arg.X.shape = <<3>>
  /\ NRows(objs[last.dst].X) = 3
  /\ NCols(objs[last.dst].X) = 1
  /\ \E c \in Slots : objs[c].live /\ objs[c].cls = "sparse" /\ NCols(objs[c].X) = 3

(***************************************************************************)
(* C16. The container remembers the storage variant it holds: Array for a  *)
(* dense matrix, Masked for a masked matrix, Sparse for a sparse matrix; a *)
(* source that is none of the three is rejected at construction.           *)
(***************************************************************************)
C16_StorageVariantRemembered ==
  /\ \A c \in Slots :
       objs[c].live =>
         objs[c].storage_type =
           CASE objs[c].cls = "ndarray" -> "Array"
             [] objs[c].cls = "masked" -> "Masked"
             [] objs[c].cls = "sparse" -> "Sparse"
             [] OTHER -> "none"
  /\ (last.op = "init" /\ arg.X.cls \notin Accepted) => last.err = "ValueError"

SameContent(c) ==
  /\ Matrix(bufs', objs'[c].X) = Matrix(bufs, objs[c].X)
  /\ SmpFields(tabs', objs'[c]) = SmpFields(tabs, objs[c])
  /\ VarFields(tabs', objs'[c]) = VarFields(tabs, objs[c])

C18_GetSharesNoState ==
  [][(/\ last.op = "getitem"
      /\ last.err = "ok"
      /\ last'.op \in {"setitem", "setcolumns", "setattr"}
      /\ last'.src \in {last.src, last.dst})
     => \A c \in {last.src, last.dst} \ {last'.src} : SameContent(c)]_vars

(***************************************************************************)
(* C19. Set changes only what it addresses: with a string index it writes  *)
(* extra[key] (which Get, get and membership with that string then read)   *)
(* and leaves the matrix and both tables as they were; with any other      *)
(* supported index it writes the value into the matrix cells at the        *)
(* selected rows and columns and leaves the other cells, both tables and   *)
(* extra as they were.                                                     *)
(***************************************************************************)
SetRows(c) ==
  Selected(last'.index.row, NamesOf(tabs[objs[c].smp], SMP_NAMES), NRows(objs[c].X))

SetCols(c) ==
  Selected(IF last'.index.tuple THEN last'.index.col ELSE SAll,
           NamesOf(tabs[objs[c].var], VAR_NAMES), NCols(objs[c].X))

SetSupported(c) ==
  /\ WellFormed(tabs, objs[c])
  /\ SelSupported(last'.index.row, NamesOf(tabs[objs[c].smp], SMP_NAMES), NRows(objs[c].X))
  /\ SelSupported(IF last'.index.tuple THEN last'.index.col ELSE SAll,
                  NamesOf(tabs[objs[c].var], VAR_NAMES), NCols(objs[c].X))

TablesSame(c) ==
  /\ SmpFields(tabs', objs'[c]) = SmpFields(tabs, objs[c])
  /\ VarFields(tabs', objs'[c]) = VarFields(tabs, objs[c])

C19_SetWritesOnlyItsTarget ==
  [][/\ (last'.op = "setitem" /\ last'.index.str) =>
          /\ last'.err = "ok"
          /\ \A k \in AddKeys :
               objs'[last'.src].add[k] =
                 IF k = last'.index.key THEN arg'.val ELSE objs[last'.src].add[k]
          /\ getitem_str(objs'[last'.src], last'.index.key) = [err |-> "ok", val |-> arg'.val]
          /\ contains(objs'[last'.src], last'.index.key)
          /\ get(objs'[last'.src], last'.index.key, Absent) = arg'.val
          /\ Matrix(bufs', objs'[last'.src].X) = Matrix(bufs, objs[last'.src].X)
          /\ TablesSame(last'.src)
     /\ (last'.op = "setitem" /\ ~last'.index.str /\ SetSupported(last'.src)) =>
          /\ last'.err = "ok"
          /\ Matrix(bufs', objs'[last'.src].X) =
               [i \in 1..NRows(objs[last'.src].X) |-> [j \in 1..NCols(objs[last'.src].X) |->
                  IF i - 1 \in Range(SetRows(last'.src)) /\ j - 1 \in Range(SetCols(last'.src))
                  THEN arg'.val
                  ELSE Entry(bufs, objs[last'.src].X, i - 1, j - 1)]]
          /\ TablesSame(last'.src)
          /\ objs'[last'.src].add = objs[last'.src].add]_vars

(***************************************************************************)
(* C20. Delete keeps the annotations in lockstep with the matrix:          *)
(* Delete(rowSelector, all columns) removes the selected rows from the     *)
(* matrix and from the row table, Delete(all rows, colSelector) removes    *)
(* the selected columns from the matrix and from the column table, so the  *)
(* remaining identifiers label the remaining rows and columns and the      *)
(* table lengths equal the dimensions of the shrunk matrix.                *)
(***************************************************************************)
Remaining(n, removed) ==
  LET F[i \in 0..n] ==
        IF i = 0 THEN <<>>
        ELSE IF (i - 1) \in Range(removed) THEN F[i - 1] ELSE Append(F[i - 1], i - 1)
  IN  F[n]

KeptRows(c) ==
  IF last'.index.col = SAll THEN Remaining(NRows(objs[c].X), SetRows(c))
  ELSE Interval(0, NRows(objs[c].X))

KeptCols(c) ==
  IF last'.index.row = SAll THEN Remaining(NCols(objs[c].X), SetCols(c))
  ELSE Interval(0, NCols(objs[c].X))

C20_DeleteKeepsLockstep ==
  [][(/\ last'.op = "delitem"
      /\ SetSupported(last'.src)
      /\ (last'.index.row = SAll \/ last'.index.col = SAll))
     => /\ last'.err = "ok"
        /\ Matrix(bufs', objs'[last'.src].X) =
             [i \in 1..Len(KeptRows(last'.src)) |-> [j \in 1..Len(KeptCols(last'.src)) |->
                Entry(bufs, objs[last'.src].X, KeptRows(last'.src)[i], KeptCols(last'.src)[j])]]
        /\ SmpFields(tabs', objs'[last'.src]) =
             RowsAt(SmpFields(tabs, objs[last'.src]), KeptRows(last'.src))
        /\ VarFields(tabs', objs'[last'.src]) =
             RowsAt(VarFields(tabs, objs[last'.src]), KeptCols(last'.src))]_vars

(***************************************************************************)
(* C21. When a combined mapping holds an identifier list for an axis       *)
(* (row_names / smp_names, col_names / var_names) and a nested mapping for *)
(* that axis (row / smp, col / var) with an identifier column of its own,  *)
(* the identifier column of the constructed table holds the values of the  *)
(* identifier list, not those of the nested mapping.                       *)
(***************************************************************************)
RowList(d) == IF d.row_names.has THEN d.row_names ELSE d.smp_names

ColList(d) == IF d.col_names.has THEN d.col_names ELSE d.var_names

NestedNames(n, name_col) == n.has /\ HasField(n.fields, name_col)

FromDdata == last.op = "init_ddata" /\ last.err = "ok"

C21_IdentifierListWins ==
  FromDdata =>
    /\ (/\ RowList(arg.ddata).has
        /\ (\/ NestedNames(arg.ddata.row, SMP_NAMES)
            \/ NestedNames(arg.ddata.smp, SMP_NAMES)))
       => NamesOf(tabs[objs[last.dst].smp], SMP_NAMES).vals = RowList(arg.ddata).vals
    /\ (/\ ColList(arg.ddata).has
        /\ (\/ NestedNames(arg.ddata.col, VAR_NAMES)
            \/ NestedNames(arg.ddata.var, VAR_NAMES)))
       => NamesOf(tabs[objs[last.dst].var], VAR_NAMES).vals = ColList(arg.ddata).vals

(***************************************************************************)
(* C22. After construction from a combined mapping, extra holds exactly    *)
(* the mapping's non-reserved keys with their values: no reserved key (X,  *)
(* the identifier lists, the nested mappings) is in extra, also when both  *)
(* synonyms of an axis are given; the caller's mapping is left as it was.  *)
(***************************************************************************)
C22_ExtraHoldsOnlyOtherKeys ==
  FromDdata =>
    /\ objs[last.dst].add = arg.ddata.add
    /\ \A k \in ListKeys : ~objs[last.dst].addlists[k].has
    /\ arg.after = arg.ddata

(* the parts of C22 the code keeps: the other keys arrive in extra, the    *)
(* caller's mapping is untouched, and a reserved key is in extra only as   *)
(* the second synonym of an identifier list whose first synonym was given  *)
C22_Leftover ==
  FromDdata =>
    /\ objs[last.dst].add = arg.ddata.add
    /\ arg.after = arg.ddata
    /\ objs[last.dst].addlists[SMP_NAMES] =
         (IF arg.ddata.row_names.has THEN arg.ddata.smp_names ELSE NoList)
    /\ objs[last.dst].addlists[VAR_NAMES] =
         (IF arg.ddata.col_names.has THEN arg.ddata.var_names ELSE NoList)

(***************************************************************************)
(* C23. Constructing a table from a mapping whose columns do not all have  *)
(* the same length fails with ValueError and produces no table, whatever   *)
(* the lengths are (a column of length 1 next to longer ones, a first      *)
(* column shorter or longer than the later ones); from a mapping of        *)
(* columns of one length N that lacks the identifier column, the table     *)
(* gets the identifier column 0..N-1 next to the supplied columns.         *)
(***************************************************************************)
LengthsDiffer(fields) ==
  \E i, j \in DOMAIN fields : Len(fields[i].vals) # Len(fields[j].vals)

C23_UnequalColumnsRejected ==
  [][(last'.op = "newtable" /\ arg'.map.t = "map" /\ arg'.map.fields # <<>>) =>
       /\ LengthsDiffer(arg'.map.fields) =>
            (last'.err = "ValueError" /\ tabs' = tabs /\ held' = held)
       /\ (~LengthsDiffer(arg'.map.fields) /\ ~HasField(arg'.map.fields, arg'.name_col)) =>
            /\ last'.err = "ok"
            /\ tabs'[held'].fields =
                 Append(arg'.map.fields,
                        Field(arg'.name_col, "i", Arange(Len(arg'.map.fields[1].vals))))]_vars

(***************************************************************************)
(* C24. Column appends are never lost: after a SetColumns call that        *)
(* appends new columns to a container's row or column table, issued        *)
(* through the container's current table or through a table handle taken   *)
(* before an earlier append replaced the table, the container's current    *)
(* table holds every column it held before and the appended columns with   *)
(* the values supplied, and it is bound to that container and to that      *)
(* axis's identifier name.                                                 *)
(***************************************************************************)
CalledTable == IF last'.op = "setcolumns_held" THEN tabs[held]
               ELSE tabs[AttrTid(objs[last'.src], last'.index.key)]

(* an append of new columns, one value column of the table's length per    *)
(* name, the names in sorted order                                         *)
AppendCall ==
  /\ last'.op \in {"setcolumns", "setcolumns_held"}
  /\ last'.err = "ok"
  /\ last'.src # 0
  /\ arg'.keys # <<>>
  /\ arg'.keys = Sorted(Range(arg'.keys))
  /\ Len(arg'.keys) = Len(arg'.values)
  /\ \A i \in DOMAIN arg'.keys :
       /\ ~HasField(CalledTable.fields, arg'.keys[i])
       /\ Len(arg'.values[i]) = TLen(CalledTable.fields)

C24_AppendsNeverLost ==
  [][AppendCall =>
       LET c == last'.src
           key == last'.index.key
           old == KeyFields(objs, tabs, c, key)
           new == KeyFields(objs', tabs', c, key)
       IN  /\ \A i \in DOMAIN old :
                /\ HasField(new, old[i].name)
                /\ old[i].name \notin Range(arg'.keys) =>
                     ColumnOf(new, old[i].name) = old[i]
           /\ \A i \in DOMAIN arg'.keys :
                /\ HasField(new, arg'.keys[i])
                /\ ColumnOf(new, arg'.keys[i]).vals = arg'.values[i]
           /\ tabs'[AttrTid(objs'[c], key)].parent = c
           /\ tabs'[AttrTid(objs'[c], key)].name_col = KeyNameCol(key)]_vars

====
